---- MODULE Spec2Model ----
(***************************************************************************)
(* Model of the traffic broadcast server (main.py): the record store       *)
(* traffic_db, the registry active_connections and one websocket_endpoint  *)
(* handler task per connection.  The handlers are asyncio tasks: a handler *)
(* runs without interruption from one await to the next, so every action   *)
(* below is one await of the handler (accept, send_json, receive_json,     *)
(* close) together with the synchronous code that follows it up to the     *)
(* next await.                                                             *)
(***************************************************************************)
EXTENDS Integers, Sequences, FiniteSets, TLC

\* ---------------------------------------------------------------- bounds
\* Number of client connections the model opens.
NumConns == 3
\* Number of JSON messages the server receives in a run, over all connections.
MaxMsgs == 2
\* Number of client transports that go away in a run.
MaxDrops == 1
\* Number of pieces in the startup file's array.
MaxRecords == 2

Conns == 1..NumConns

\* ------------------------------------------------------------ record store
default_db ==
    << [location |-> "Taipei", event |-> "clear"],
       [location |-> "Banqiao", event |-> "slow"] >>

\* The startup file traffic_data.json.  Its text is modelled by its pieces:
\* kind "absent" is no file; kind "array" is "[" piece "," piece ... and, when
\* closed, the final "]"; kind "object" is a single piece that is a JSON object,
\* standing alone as the whole text.
Chunks ==
    { "{\"location\":\"A\",\"event\":\"B\"}",
      "{\"event\":\"B\",\"location\":\"A\"}",
      "{\"location\":\"C\",\"event\":\"D\"}",
      "{\"location\":\"A\"}",
      "5",
      "{oops" }

ObjectChunks ==
    { "{\"location\":\"A\",\"event\":\"B\"}",
      "{\"event\":\"B\",\"location\":\"A\"}",
      "{\"location\":\"C\",\"event\":\"D\"}",
      "{\"location\":\"A\"}" }

NoFile == [kind |-> "absent", items |-> << >>, closed |-> TRUE]
EmptyArrayFile == [kind |-> "array", items |-> << >>, closed |-> TRUE]

Files ==
    { NoFile }
    \cup { [kind |-> "array", items |-> s, closed |-> b] :
             s \in UNION { [1..n -> Chunks] : n \in 0..MaxRecords }, b \in BOOLEAN }
    \cup { [kind |-> "object", items |-> << c >>, closed |-> TRUE] : c \in ObjectChunks }

\* json.loads of one piece: a mapping with its keys and values, or a value
\* that is no mapping.
NonMapping == [obj |-> FALSE, keys |-> {}, location |-> "", event |-> ""]

parse_item(c) ==
    CASE c \in { "{\"location\":\"A\",\"event\":\"B\"}", "{\"event\":\"B\",\"location\":\"A\"}" }
            -> [obj |-> TRUE, keys |-> { "location", "event" }, location |-> "A", event |-> "B"]
      [] c = "{\"location\":\"C\",\"event\":\"D\"}"
            -> [obj |-> TRUE, keys |-> { "location", "event" }, location |-> "C", event |-> "D"]
      [] c = "{\"location\":\"A\"}"
            -> [obj |-> TRUE, keys |-> { "location" }, location |-> "A", event |-> ""]
      [] OTHER -> NonMapping

\* json.load raises JSONDecodeError on a text that is not JSON: an array that
\* is not closed or holds a piece that is not JSON.
is_json_file(f) ==
    /\ f.closed
    /\ \A n \in 1..Len(f.items) : f.items[n] # "{oops"

\* (variant) the parsed items in reverse order.
json_load_reversed(f) ==
    [n \in 1..Len(f.items) |-> parse_item(f.items[Len(f.items) + 1 - n])]

\* json.load of the startup file, as the for clause iterates it: the items of
\* an array in order; the keys of an object, which are strings.
json_load(f) ==
    IF f.kind = "object"
    THEN [n \in 1..Cardinality(parse_item(f.items[1]).keys) |-> NonMapping]
    ELSE [n \in 1..Len(f.items) |-> parse_item(f.items[n])]

\* TrafficData(**item): TypeError for an item that is no mapping, a validation
\* error for a mapping without both fields.
TrafficData_raises(item) == ~item.obj \/ ~({ "location", "event" } \subseteq item.keys)
TrafficData(item) == [location |-> item.location, event |-> item.event]

\* load_traffic_data raises: only FileNotFoundError and JSONDecodeError are caught.
load_raises(f) ==
    /\ f # NoFile
    /\ is_json_file(f)
    /\ \E n \in 1..Len(json_load(f)) : TrafficData_raises(json_load(f)[n])

\* traffic_db after load_traffic_data (the assignment at line 28 does not
\* happen when the list comprehension raises).
load_traffic_data(f) ==
    IF f = NoFile THEN default_db
    ELSE IF ~is_json_file(f) THEN default_db
    ELSE IF load_raises(f) THEN << >>
    ELSE [n \in 1..Len(json_load(f)) |-> TrafficData(json_load(f)[n])]

\* ------------------------------------------------------------ JSON frames
\* Text frames a client may send.  The first two are the same JSON object
\* with different spacing; the last is not JSON.
Frames ==
    { "{\"location\":\"X\",\"event\":\"Y\"}",
      "{ \"location\" : \"X\", \"event\" : \"Y\" }",
      "oops" }

\* The texts json.loads accepts: the client frames that are JSON and the
\* texts json.dumps produces.
is_json(t) ==
    t \in { "{\"location\":\"X\",\"event\":\"Y\"}",
            "{ \"location\" : \"X\", \"event\" : \"Y\" }",
            "{\"location\": \"X\", \"event\": \"Y\"}",
            "{\"location\": \"Taipei\", \"event\": \"clear\"}" }

\* receive_json: json.loads of the received text.
json_loads(t) ==
    CASE t \in { "{\"location\":\"X\",\"event\":\"Y\"}",
                 "{ \"location\" : \"X\", \"event\" : \"Y\" }",
                 "{\"location\": \"X\", \"event\": \"Y\"}" } -> [location |-> "X", event |-> "Y"]
      [] t = "{\"location\": \"Taipei\", \"event\": \"clear\"}" -> [location |-> "Taipei", event |-> "clear"]
      [] OTHER -> [location |-> "", event |-> ""]

\* send_json: json.dumps of the value (", " and ": " separators).
json_dumps(v) ==
    CASE v = [location |-> "X", event |-> "Y"] -> "{\"location\": \"X\", \"event\": \"Y\"}"
      [] v = [location |-> "Taipei", event |-> "clear"] -> "{\"location\": \"Taipei\", \"event\": \"clear\"}"
      [] OTHER -> "null"

\* ------------------------------------------------------------------ state
VARIABLES
    file,                \* the startup file
    boot,                \* "start" before the module-level load, then "serving" or "import_error"
    traffic_db,          \* the record store
    active_connections,  \* the registry
    pc,                  \* pc[c]: where connection c's handler is
    transport,           \* transport[c]: "open", "down" (client gone), "closed" (server closed it)
    cur,                 \* cur[c]: the message handler c is fanning out, its snapshot, the targets left
    sent,                \* sent[c]: the frames the server has written to connection c, in order
    rcvd,                \* the JSON messages the server has received, in order, each with
                         \* the registry and the removed connections at its receipt
    failedSends,         \* <<src, target, id>> of every send that raised
    drops                \* number of client transports gone so far

vars == << file, boot, traffic_db, active_connections, pc, transport, cur, sent, rcvd, failedSends, drops >>

NoData == [location |-> "", event |-> ""]
Idle == [id |-> 0, data |-> NoData, snap |-> {}, rest |-> {}]

\* The welcome frame is tagged src 0, id 0; a relayed frame with the handler that
\* relays it and the index in rcvd of the message it relays.
WelcomeFrame == [src |-> 0, id |-> 0, text |-> json_dumps(traffic_db[1])]
RelayFrame(c) == [src |-> c, id |-> cur[c].id, text |-> json_dumps(cur[c].data)]

\* The startup files the serving runs start from.
StartFiles == { NoFile, EmptyArrayFile }

\* The state once the module is imported: the load at line 44 has run.
Init ==
    /\ file \in StartFiles
    /\ boot = "serving"
    /\ traffic_db = load_traffic_data(file)
    /\ active_connections = {}
    /\ pc = [c \in Conns |-> "accept"]
    /\ transport = [c \in Conns |-> "open"]
    /\ cur = [c \in Conns |-> Idle]
    /\ sent = [c \in Conns |-> << >>]
    /\ rcvd = << >>
    /\ failedSends = {}
    /\ drops = 0

\* The handler of c has added c to the registry at some point.
Registered(c) == pc[c] \notin { "accept", "refused" }

\* The connections that were in the registry and no longer are.
Removed == { c \in Conns : Registered(c) /\ c \notin active_connections }

\* --------------------------------------------------------------- helpers
\* A send, receive or accept on a transport succeeds while the transport is open.
channel_ok(t) == t = "open"

\* set.remove(x): raises KeyError when x is absent.
raises_KeyError(reg, x) == x \notin reg

\* (variant) a remove that leaves the set as it was.
remove_noop(reg, x) == reg

remove(reg, x) == reg \ {x}

\* (variant) the for loop skips the connection the message came from.
fanout_targets_others(websocket, reg) == reg \ {websocket}

\* (variant) the for loop iterates every connection the server has seen.
fanout_targets_stale(websocket, reg) == reg \cup Removed

\* active_connections.copy(), the targets the for loop iterates.
fanout_targets(websocket, reg) == reg

\* (variant) the for loop drops the targets that have left the registry.
rest_after_live(rest, j) == (rest \ {j}) \cap active_connections

\* (variant) the for loop keeps the target it has just sent to.
rest_after_keep(rest, j) == rest

\* (variant) the for loop stops after its first send.
rest_after_break(rest, j) == {}

\* The for loop's remaining targets after the send to j returned or raised
\* into the inner except.
rest_after(rest, j) == rest \ {j}

\* (variant) a frame written ahead of the frames already queued.
write_frame_front(q, fr) == << fr >> \o q

\* The write of a frame on a connection: frames leave in the order written.
write_frame(q, fr) == Append(q, fr)

\* (variant) the finally block empties the registry.
finally_reg_clear(c, reg) == {}

\* (variant) the handler swallows the error and goes on to receive.
finally_pc_resume(c, reg) == "receive"

\* The finally block: active_connections.remove(websocket), then the await of
\* close().  A KeyError leaves the handler before close() is reached.
finally_pc(c, reg) == IF raises_KeyError(reg, c) THEN "crashed" ELSE "close"
finally_reg(c, reg) == IF raises_KeyError(reg, c) THEN reg ELSE remove(reg, c)

\* --------------------------------------------------------------- actions
\* await websocket.accept() returns; active_connections.add; if traffic_db.
AcceptOk(c) ==
    /\ pc[c] = "accept"
    /\ channel_ok(transport[c])
    /\ active_connections' = active_connections \cup {c}
    /\ pc' = [pc EXCEPT ![c] = IF traffic_db # << >> THEN "welcome" ELSE "receive"]
    /\ UNCHANGED << file, boot, traffic_db, transport, cur, sent, rcvd, failedSends, drops >>

\* await websocket.accept() raises: outside the try, the handler ends unregistered.
AcceptFail(c) ==
    /\ pc[c] = "accept"
    /\ ~channel_ok(transport[c])
    /\ pc' = [pc EXCEPT ![c] = "refused"]
    /\ UNCHANGED << file, boot, traffic_db, active_connections, transport, cur, sent, rcvd, failedSends, drops >>

\* await websocket.send_json(traffic_db[0].dict()) succeeds; on to the while loop.
WelcomeOk(c) ==
    /\ pc[c] = "welcome"
    /\ channel_ok(transport[c])
    /\ sent' = [sent EXCEPT ![c] = write_frame(@, WelcomeFrame)]
    /\ pc' = [pc EXCEPT ![c] = "receive"]
    /\ UNCHANGED << file, boot, traffic_db, active_connections, transport, cur, rcvd, failedSends, drops >>

\* The welcome send raises: outer except, then finally.
WelcomeFail(c) ==
    /\ pc[c] = "welcome"
    /\ ~channel_ok(transport[c])
    /\ failedSends' = failedSends \cup { << 0, c, 0 >> }
    /\ pc' = [pc EXCEPT ![c] = finally_pc(c, active_connections)]
    /\ active_connections' = finally_reg(c, active_connections)
    /\ UNCHANGED << file, boot, traffic_db, transport, cur, sent, rcvd, drops >>

\* await websocket.receive_json() returns a JSON value: snapshot the registry
\* and start the for loop (an empty snapshot goes straight back to receive).
ReceiveJson(c) ==
    /\ pc[c] = "receive"
    /\ channel_ok(transport[c])
    /\ Len(rcvd) < MaxMsgs
    /\ \E f \in Frames :
        /\ is_json(f)
        /\ rcvd' = Append(rcvd, [src |-> c, data |-> json_loads(f),
                                 reg |-> active_connections, gone |-> Removed])
        /\ LET snap == fanout_targets(c, active_connections) IN
            /\ cur' = [cur EXCEPT ![c] = [id |-> Len(rcvd) + 1, data |-> json_loads(f),
                                          snap |-> snap, rest |-> snap]]
            /\ pc' = [pc EXCEPT ![c] = IF snap = {} THEN "receive" ELSE "fanout"]
    /\ UNCHANGED << file, boot, traffic_db, active_connections, transport, sent, failedSends, drops >>

\* receive_json raises on a frame that is not JSON: except at the while level,
\* break, finally.
ReceiveBad(c) ==
    /\ pc[c] = "receive"
    /\ channel_ok(transport[c])
    /\ \E f \in Frames : ~is_json(f)
    /\ pc' = [pc EXCEPT ![c] = finally_pc(c, active_connections)]
    /\ active_connections' = finally_reg(c, active_connections)
    /\ UNCHANGED << file, boot, traffic_db, transport, cur, sent, rcvd, failedSends, drops >>

\* receive_json raises because the client is gone: break, finally.
ReceiveDisconnect(c) ==
    /\ pc[c] = "receive"
    /\ ~channel_ok(transport[c])
    /\ pc' = [pc EXCEPT ![c] = finally_pc(c, active_connections)]
    /\ active_connections' = finally_reg(c, active_connections)
    /\ UNCHANGED << file, boot, traffic_db, transport, cur, sent, rcvd, failedSends, drops >>

\* await connection.send_json(data) succeeds for the next target j of the for
\* loop (a set's iteration order is not specified: any remaining target).
SendOk(c) ==
    /\ pc[c] = "fanout"
    /\ \E j \in cur[c].rest :
        /\ channel_ok(transport[j])
        /\ sent' = [sent EXCEPT ![j] = write_frame(@, RelayFrame(c))]
        /\ cur' = [cur EXCEPT ![c].rest = rest_after(cur[c].rest, j)]
        /\ pc' = [pc EXCEPT ![c] = IF rest_after(cur[c].rest, j) = {} THEN "receive" ELSE "fanout"]
    /\ UNCHANGED << file, boot, traffic_db, active_connections, transport, rcvd, failedSends, drops >>

\* The send to j raises: inner except, active_connections.remove(connection).
\* A KeyError from that remove leaves the for loop into the except of the while
\* level: break, finally.
SendFail(c) ==
    /\ pc[c] = "fanout"
    /\ \E j \in cur[c].rest :
        /\ ~channel_ok(transport[j])
        /\ failedSends' = failedSends \cup { << c, j, cur[c].id >> }
        /\ cur' = [cur EXCEPT ![c].rest = rest_after(cur[c].rest, j)]
        /\ IF raises_KeyError(active_connections, j)
           THEN /\ pc' = [pc EXCEPT ![c] = finally_pc(c, active_connections)]
                /\ active_connections' = finally_reg(c, active_connections)
           ELSE /\ active_connections' = remove(active_connections, j)
                /\ pc' = [pc EXCEPT ![c] = IF rest_after(cur[c].rest, j) = {} THEN "receive" ELSE "fanout"]
    /\ UNCHANGED << file, boot, traffic_db, transport, sent, rcvd, drops >>

\* await websocket.close(): closes an open channel; the RuntimeError of a
\* channel that is already gone is swallowed.
Close(c) ==
    /\ pc[c] = "close"
    /\ transport' = [transport EXCEPT ![c] = IF @ = "open" THEN "closed" ELSE @]
    /\ pc' = [pc EXCEPT ![c] = "closed"]
    /\ UNCHANGED << file, boot, traffic_db, active_connections, cur, sent, rcvd, failedSends, drops >>

\* The environment: a client's transport goes away.
ClientDisconnect(c) ==
    /\ transport[c] = "open"
    /\ pc[c] \in { "accept", "welcome", "receive", "fanout" }
    /\ drops < MaxDrops
    /\ transport' = [transport EXCEPT ![c] = "down"]
    /\ drops' = drops + 1
    /\ UNCHANGED << file, boot, traffic_db, active_connections, pc, cur, sent, rcvd, failedSends >>

Next ==
    \E c \in Conns :
        \/ AcceptOk(c)
        \/ AcceptFail(c)
        \/ WelcomeOk(c)
        \/ WelcomeFail(c)
        \/ ReceiveJson(c)
        \/ ReceiveBad(c)
        \/ ReceiveDisconnect(c)
        \/ SendOk(c)
        \/ SendFail(c)
        \/ Close(c)
        \/ ClientDisconnect(c)

Spec == Init /\ [][Next]_vars

\* The event loop runs every handler whose await can return.
FairSpec ==
    /\ Spec
    /\ \A c \in Conns : WF_vars(SendOk(c) \/ SendFail(c))

\* The steps of handler c that the event loop takes on its own: every await
\* but a receive that is waiting for the client.
ServerStep(c) ==
    \/ AcceptOk(c)
    \/ AcceptFail(c)
    \/ WelcomeOk(c)
    \/ WelcomeFail(c)
    \/ ReceiveDisconnect(c)
    \/ SendOk(c)
    \/ SendFail(c)
    \/ Close(c)

\* The event loop resumes every handler whose await can return.
FairHandlers ==
    /\ Spec
    /\ \A c \in Conns : WF_vars(ServerStep(c))

\* ------------------------------------------------------------- the load
\* The module-level call load_traffic_data() at import.
Load ==
    /\ boot = "start"
    /\ boot' = IF load_raises(file) THEN "import_error" ELSE "serving"
    /\ traffic_db' = load_traffic_data(file)
    /\ UNCHANGED << file, active_connections, pc, transport, cur, sent, rcvd, failedSends, drops >>

InitLoad ==
    /\ file \in Files
    /\ boot = "start"
    /\ traffic_db = << >>
    /\ active_connections = {}
    /\ pc = [c \in Conns |-> "accept"]
    /\ transport = [c \in Conns |-> "open"]
    /\ cur = [c \in Conns |-> Idle]
    /\ sent = [c \in Conns |-> << >>]
    /\ rcvd = << >>
    /\ failedSends = {}
    /\ drops = 0

NextLoad == Load

LoadSpec == InitLoad /\ [][NextLoad]_vars

\* (variant) the response also lists the payloads received on the live channel.
get_traffic_with_updates == traffic_db \o [n \in 1..Len(rcvd) |-> rcvd[n].data]

\* get_traffic: the response of GET /traffic.
get_traffic == traffic_db

\* ------------------------------------------------------- derived notions
\* Connection j was sent the relay of message k, with k's payload.
Delivered(j, k) ==
    /\ k <= Len(rcvd)
    /\ \E n \in 1..Len(sent[j]) :
        /\ sent[j][n].id = k
        /\ sent[j][n].src = rcvd[k].src
        /\ json_loads(sent[j][n].text) = rcvd[k].data

\* Some send of the fan-out of message k raised.
SendFailedIn(k) == \E s, t \in Conns : << s, t, k >> \in failedSends

\* Some send to connection j raised (welcome or relay).
SendFailedTo(j) == \E s \in 0..NumConns, k \in 0..MaxMsgs : << s, j, k >> \in failedSends

\* The handler of c is in its OPEN part (welcome send or receive loop).
HandlerOpen(c) == pc[c] \in { "welcome", "receive", "fanout" }

\* ---------------------------------------------------------------- claims
\* C1: a JSON message received on connection i while j is registered is
\* eventually sent to every registered j other than i with its payload
\* unchanged (the text sent parses to the value received), unless a send of
\* that fan-out fails: every fan-out comes to an end, and once it has, with no
\* failed send, every other member of its snapshot has been sent the message.
C1_Delivery ==
    /\ [](\A i \in Conns : \A j \in Conns \ {i} :
            (cur[i].id > 0 /\ pc[i] # "fanout" /\ j \in cur[i].snap /\ ~SendFailedIn(cur[i].id))
                => Delivered(j, cur[i].id))
    /\ \A i \in Conns : (pc[i] = "fanout") ~> (pc[i] # "fanout")

\* C1 witness: a message received with every connection registered has been
\* relayed to all the others and no send of its fan-out failed.
C1_Witness ==
    \E i \in Conns :
        /\ cur[i].id > 0
        /\ cur[i].snap = Conns
        /\ cur[i].rest = {}
        /\ ~SendFailedIn(cur[i].id)
        /\ \A j \in Conns \ {i} : Delivered(j, cur[i].id)

\* The fan-out of message k has come to an end (completed or left).
FanoutEnded(k) ==
    /\ k <= Len(rcvd)
    /\ (cur[rcvd[k].src].id = k => pc[rcvd[k].src] # "fanout")

\* The send of the welcome frame to c raises in this step.
WelcomeFails(c) == << 0, c, 0 >> \notin failedSends /\ << 0, c, 0 >> \in failedSends'

\* A send of handler i's fan-out to target j raises in this step.
RelayFails(i, j) ==
    /\ pc[i] = "fanout"
    /\ << i, j, cur[i].id >> \notin failedSends
    /\ << i, j, cur[i].id >> \in failedSends'

\* C2: when a send of a fan-out has failed, the fan-out still attempts the send
\* to every other target of its snapshot: a fan-out that has ended has no
\* target left unattempted.
C2_RestAttempted ==
    \A i \in Conns :
        (cur[i].id > 0 /\ pc[i] # "fanout" /\ SendFailedIn(cur[i].id)) => cur[i].rest = {}

\* C3: when a snapshot member j has been removed from the registry by its own
\* handler while handler i's fan-out still has j to send to, no exception
\* escapes i's for loop: i stays in the loop or returns to receive.
C3_NoThrow ==
    [][ \A i \in Conns : \A j \in Conns \ {i} :
          (pc[i] = "fanout" /\ j \in cur[i].rest /\ pc[j] \in { "close", "closed" })
              => pc'[i] \in { "fanout", "receive" } ]_vars

\* C4: a handler that leaves its OPEN state removes its connection from the
\* registry without an error, also when the connection is already absent, and
\* goes on to the close of the channel.
C4_CloseAttempted ==
    [][ \A c \in Conns :
          (HandlerOpen(c) /\ ~HandlerOpen(c)') => (pc'[c] = "close" /\ c \notin active_connections') ]_vars

\* C5: a failed send to a target j during the fan-out of handler i (i # j)
\* never terminates handler i: i stays in its receive loop and, if it was in
\* the registry, stays in the registry.
C5_SenderSurvives ==
    [][ \A i \in Conns : \A j \in Conns \ {i} :
          RelayFails(i, j) =>
              /\ pc'[i] \in { "fanout", "receive" }
              /\ (i \in active_connections => i \in active_connections') ]_vars

\* C6: no send of the relay of a message, successful or failed, goes to a
\* connection that had been removed from the registry before the message was
\* received.
C6_NoStaleTarget ==
    /\ \A j \in Conns : \A n \in 1..Len(sent[j]) :
          sent[j][n].src # 0 => j \notin rcvd[sent[j][n].id].gone
    /\ \A f \in failedSends : f[1] # 0 => f[2] \notin rcvd[f[3]].gone

\* C6 witness: a message received after some connection had been removed has
\* been relayed to a connection.
C6_Witness ==
    \E k \in 1..Len(rcvd) :
        /\ rcvd[k].gone # {}
        /\ FanoutEnded(k)
        /\ \E j \in Conns : Delivered(j, k)

\* C7: a connection is in the registry iff it was registered, its handler is
\* still OPEN and no send to it has failed.
C7_RegistryIffOpen ==
    \A c \in Conns :
        c \in active_connections <=> (Registered(c) /\ HandlerOpen(c) /\ ~SendFailedTo(c))

\* C7 witness: a connection evicted after a failed send while its handler is
\* still OPEN, next to one that is registered and one whose handler has closed.
C7_Witness ==
    /\ \E c \in Conns : HandlerOpen(c) /\ SendFailedTo(c) /\ c \notin active_connections
    /\ \E c \in Conns : c \in active_connections
    /\ \E c \in Conns : pc[c] = "closed"

\* C8 (as stated): a client is never sent a copy of its own message.
C8_SenderExcluded ==
    \A i \in Conns : \A n \in 1..Len(sent[i]) : sent[i][n].src # i

\* C8 (amended): the targets of a fan-out are the members of the registry at
\* the receipt, the sender included: every relayed frame goes to a member of
\* that registry, and once the fan-out has ended with no failed send the
\* sender, if it was registered, has been sent its own message.
C8_SenderIncluded ==
    /\ \A j \in Conns : \A n \in 1..Len(sent[j]) :
          sent[j][n].src # 0 => j \in rcvd[sent[j][n].id].reg
    /\ \A k \in 1..Len(rcvd) :
          (rcvd[k].src \in rcvd[k].reg /\ FanoutEnded(k) /\ ~SendFailedIn(k))
              => Delivered(rcvd[k].src, k)

\* C8 witness: a sender has been sent the relay of its own message.
C8_Witness ==
    \E k \in 1..Len(rcvd) : FanoutEnded(k) /\ ~SendFailedIn(k) /\ Delivered(rcvd[k].src, k)

\* C9: with a non-empty record store, the first frame sent to a connection is
\* the welcome frame carrying the store's first record.
C9_WelcomeFirst ==
    \A c \in Conns :
        (traffic_db # << >> /\ sent[c] # << >>) =>
            (sent[c][1].src = 0 /\ json_loads(sent[c][1].text) = traffic_db[1])

\* C10 (as stated): when the welcome send fails the connection stays in the
\* registry and its handler goes on to the receive loop.
C10_WelcomeFailureHarmless ==
    [][ \A c \in Conns :
          WelcomeFails(c) => (pc'[c] = "receive" /\ c \in active_connections') ]_vars

\* C10 (amended): when the welcome send fails the handler never enters the
\* receive loop: it leaves its OPEN state in the same step and the connection
\* is not in the registry afterwards.
C10_WelcomeFailureCloses ==
    [][ \A c \in Conns :
          WelcomeFails(c) => (~HandlerOpen(c)' /\ c \notin active_connections') ]_vars

\* C10 witness: a connection whose welcome send failed; its handler has closed.
C10_Witness ==
    \E c \in Conns : << 0, c, 0 >> \in failedSends /\ pc[c] = "closed"

\* The receive of handler i raises in this step (a transport failure or a frame
\* that is not JSON): the handler leaves the receive loop for good.
ReceiveFails(i) == pc[i] = "receive" /\ ~HandlerOpen(i)'

\* C11: a receive failure or a non-JSON frame on connection i terminates only
\* i's handler: i is not in the registry afterwards, nothing is received or
\* sent for that input, and every other connection keeps its registry
\* membership and its handler state.
C11_OnlyOwnHandlerEnds ==
    [][ \A i \in Conns :
          ReceiveFails(i) =>
              /\ i \notin active_connections'
              /\ sent' = sent
              /\ rcvd' = rcvd
              /\ \A j \in Conns \ {i} :
                    /\ pc'[j] = pc[j]
                    /\ (j \in active_connections' <=> j \in active_connections) ]_vars

\* C11 witness: no message was ever received and no send failed, one handler
\* has left after a failed receive and another is still OPEN and registered.
C11_Witness ==
    /\ rcvd = << >>
    /\ failedSends = {}
    /\ \E i \in Conns : \E j \in Conns \ {i} :
          /\ pc[i] \in { "close", "closed" }
          /\ HandlerOpen(j)
          /\ j \in active_connections

\* C12: whatever the live connections have done, GET /traffic returns the list
\* the startup load produced from the startup file.
C12_StoreUntouched == get_traffic = load_traffic_data(file)

\* C12 witness: a message has been relayed, a handler has closed and a
\* connection is still registered.
C12_Witness ==
    /\ \E k \in 1..Len(rcvd) : FanoutEnded(k) /\ \E j \in Conns : Delivered(j, k)
    /\ \E c \in Conns : pc[c] = "closed"
    /\ active_connections # {}

\* Some send of a fan-out to connection j raised.
RelayFailedTo(j) == \E s \in Conns, k \in 1..MaxMsgs : << s, j, k >> \in failedSends

\* C15: once a send of a fan-out to j has failed, j is out of the registry from
\* the end of that step on (so before the fan-out's next send), and no
\* snapshot taken afterwards contains j.
C15_EvictedAtOnce ==
    [][ \A j \in Conns :
          /\ RelayFailedTo(j)' => j \notin active_connections'
          /\ RelayFailedTo(j) =>
                \A i \in Conns : cur'[i].id # cur[i].id => j \notin cur'[i].snap ]_vars

\* C15 witness: a send of handler s to j failed in the fan-out of one message, and
\* s has since received the next message with a registry that lacks j.
C15_Witness ==
    \E f \in failedSends :
        /\ f[1] # 0
        /\ Len(rcvd) > f[3]
        /\ rcvd[f[3] + 1].src = f[1]
        /\ f[2] \in rcvd[f[3]].reg
        /\ f[2] \notin rcvd[f[3] + 1].reg

\* The connections handler i's current fan-out has sent to, or failed to send to.
Attempted(i) ==
    { j \in Conns :
        \/ \E n \in 1..Len(sent[j]) : sent[j][n].src = i /\ sent[j][n].id = cur[i].id
        \/ << i, j, cur[i].id >> \in failedSends }

\* C16: the targets of a fan-out are fixed as the registry members at its
\* start: at every moment the targets attempted and the targets left make up
\* exactly the registry of the receipt, whatever was added to or removed from
\* the registry meanwhile.
C16_SnapshotFixed ==
    \A i \in Conns :
        cur[i].id > 0 =>
            /\ Attempted(i) \cap cur[i].rest = {}
            /\ Attempted(i) \cup cur[i].rest = rcvd[cur[i].id].reg

\* C16 witness: during a fan-out one connection has joined the registry, which
\* is no target, and a snapshot member has left it, which still is a target.
C16_Witness ==
    \E i \in Conns :
        /\ pc[i] = "fanout"
        /\ \E j \in active_connections : j \notin cur[i].snap
        /\ \E j \in cur[i].rest : j \notin active_connections

\* C17: two messages received on the same connection reach every connection
\* that is sent both in the order received, and the fan-out of the first is
\* over before the second is received: a handler writes only frames of the
\* message it is fanning out, and receives only when it is not fanning out.
C17_PerSenderOrder ==
    /\ [](\A j \in Conns : \A n1, n2 \in 1..Len(sent[j]) :
            (sent[j][n1].src # 0 /\ sent[j][n1].src = sent[j][n2].src
                /\ sent[j][n1].id < sent[j][n2].id) => n1 < n2)
    /\ [][ /\ \A i \in Conns : cur'[i].id # cur[i].id => pc[i] = "receive"
           /\ \A j \in Conns : \A n \in 1..Len(sent'[j]) :
                 (n > Len(sent[j]) /\ sent'[j][n].src # 0) =>
                     /\ pc[sent'[j][n].src] = "fanout"
                     /\ cur[sent'[j][n].src].id = sent'[j][n].id ]_vars

\* C17 witness: a connection has been sent two messages of the same sender.
C17_Witness ==
    \E j \in Conns : \E n1, n2 \in 1..Len(sent[j]) :
        sent[j][n1].src # 0 /\ sent[j][n1].src = sent[j][n2].src /\ sent[j][n1].id < sent[j][n2].id

\* C19: every frame sent to a connection is the welcome record or carries the
\* payload of a message received before, and no connection is sent the same
\* received message twice.
C19_OnlyReceivedOnce ==
    \A j \in Conns : \A n \in 1..Len(sent[j]) :
        /\ IF sent[j][n].src = 0
           THEN traffic_db # << >> /\ json_loads(sent[j][n].text) = traffic_db[1]
           ELSE /\ sent[j][n].id \in 1..Len(rcvd)
                /\ rcvd[sent[j][n].id].src = sent[j][n].src
                /\ json_loads(sent[j][n].text) = rcvd[sent[j][n].id].data
        /\ \A n2 \in 1..Len(sent[j]) : sent[j][n2].id = sent[j][n].id => n2 = n

\* C19 witness: a connection has been sent its welcome record and two relayed
\* messages.
C19_Witness ==
    \E j \in Conns :
        /\ Len(sent[j]) = 3
        /\ sent[j][1].src = 0
        /\ sent[j][2].src # 0
        /\ sent[j][3].src # 0

\* The handler of c has ended: it returned after close(), or an exception left it.
HandlerEnded(c) == pc[c] \in { "closed", "crashed", "refused" }

\* C18: under fair scheduling, once a client's transport is gone or a receive
\* has failed (the handler is on its way out), the handler eventually ends; a
\* handler that has left its OPEN state has its connection out of the
\* registry, and a connection that is out of the registry is never added back.
\* The condition lasts until the handler has ended (third conjunct), so
\* "eventually ends" is: from some point on every such handler has ended.
C18_EventuallyClosed ==
    /\ [](\A c \in Conns : (Registered(c) /\ ~HandlerOpen(c)) => c \notin active_connections)
    /\ [][ \A c \in Conns :
             (Registered(c) /\ c \notin active_connections) => c \notin active_connections' ]_vars
    /\ [][ \A c \in Conns :
             ((transport[c] = "down" \/ pc[c] = "close") /\ ~HandlerEnded(c))
                 => (transport'[c] = "down" \/ pc'[c] = "close" \/ HandlerEnded(c)') ]_vars
    /\ <>[](\A c \in Conns : (transport[c] = "down" \/ pc[c] = "close") => HandlerEnded(c))

\* C18 witness: a client's transport went away, its handler has closed and its
\* connection is out of the registry while another is still registered.
C18_Witness ==
    \E c \in Conns :
        /\ transport[c] = "down"
        /\ pc[c] = "closed"
        /\ c \notin active_connections
        /\ active_connections # {}

\* A valid startup file: a closed array whose pieces are all objects with
\* location and event.
ValidFile(f) ==
    /\ f.kind = "array"
    /\ f.closed
    /\ \A n \in 1..Len(f.items) :
          f.items[n] \in { "{\"location\":\"A\",\"event\":\"B\"}",
                           "{\"event\":\"B\",\"location\":\"A\"}",
                           "{\"location\":\"C\",\"event\":\"D\"}" }

\* C13: for every startup file that is missing or malformed (not JSON, or JSON
\* that is not an array of {location, event} objects) the load completes
\* without raising and the store is the two default records in order.
C13_DefaultsOnBadFile ==
    (boot # "start" /\ ~ValidFile(file)) => (boot = "serving" /\ traffic_db = default_db)

\* C14: for every valid startup file the load completes and the store is the
\* parsed records in file order, none added, dropped or reordered.
C14_RecordsInFileOrder ==
    (boot # "start" /\ ValidFile(file)) =>
        /\ boot = "serving"
        /\ Len(traffic_db) = Len(file.items)
        /\ \A n \in 1..Len(file.items) :
              /\ traffic_db[n].location = parse_item(file.items[n]).location
              /\ traffic_db[n].event = parse_item(file.items[n]).event

\* C14 witness: a valid file of two different records has been loaded.
C14_Witness ==
    /\ boot = "serving"
    /\ ValidFile(file)
    /\ Len(file.items) = 2
    /\ Len(traffic_db) = 2
    /\ traffic_db[1] # traffic_db[2]

====
